---- MODULE Spec2Model ----
(***************************************************************************)
(* A model of the terra-web front end: the credential store and the host   *)
(* API client of src/src/lib/github.ts, the repository scanner             *)
(* (analyzeRepository), the repo-picker page and the commit flow of the    *)
(* project page with its confirmation dialog.                              *)
(*                                                                         *)
(* JavaScript strings are TLA+ strings.  An async function runs            *)
(* synchronously up to its first await, so one action covers the code from *)
(* one await to the next; a request is issued in one action and answered   *)
(* in a later one, and the source-control host and the user act in         *)
(* between.                                                                *)
(***************************************************************************)
EXTENDS Integers, Sequences, FiniteSets, TLC

VARIABLES
  localStorage,   \* the 'github_token' slot: <<>> (null) or <<token>>
  hostHead,       \* host: branch name -> head commit hash, 0 when absent
  hostCommits,    \* host: commit hash -> the file at FilePath in that commit
  hostRoot,       \* host: the entries of the repository root
  sent,           \* requests this flow has issued, in order
  recv,           \* responses that have arrived, recv[i] answers sent[i]
  call,           \* the host API client operation being run on its own
  scan,           \* analyzeRepository: its position and its analysis
  picker,         \* GitHubAuthPage: the repo-picker page
  page,           \* ProjectPage and FileModificationDialog: the commit flow
  diff            \* the rows renderDiff shows in the dialog, <<>> when closed

vars ==
  <<localStorage, hostHead, hostCommits, hostRoot, sent, recv, call, scan,
    picker, page, diff>>

hostVars == <<hostHead, hostCommits, hostRoot>>

(***************************************************************************)
(* Bounds.                                                                 *)
(***************************************************************************)
\* commits the host holds: bounds the pushes
MaxSha == 3
\* entries of a root listing
MaxEntries == 2
\* lines of a text the chat service proposes a change of
MaxLines == 3
\* characters of a text that is encoded or decoded
MaxText == 3

(***************************************************************************)
(* Strings.                                                                *)
(***************************************************************************)
\* String.prototype.includes
Includes(s, sub) ==
  \E i \in 1..(Len(s) - Len(sub) + 1) : SubSeq(s, i, i + Len(sub) - 1) = sub

\* String.prototype.startsWith
StartsWith(s, pre) == Len(s) >= Len(pre) /\ SubSeq(s, 1, Len(pre)) = pre

\* String.prototype.endsWith
EndsWith(s, suf) ==
  Len(s) >= Len(suf) /\ SubSeq(s, Len(s) - Len(suf) + 1, Len(s)) = suf

Last(q) == q[Len(q)]

MaxOf(S) == CHOOSE m \in S : \A k \in S : k <= m

(***************************************************************************)
(* btoa and atob of the browser, on the characters the model uses.         *)
(***************************************************************************)
B64 == "ABCDEFGHIJKLMNOPQRSTUVWXYZabcdefghijklmnopqrstuvwxyz0123456789+/"

\* the printable ASCII characters in code order: code 32 to 95, and 97 to 126
\* (a string of the model cannot hold the grave accent, code 96)
AsciiLo == " !\"#$%&'(" \o ")*+,-./0123456789:;<=>?@ABCDEFGHIJKLMNOPQRSTUVWXYZ[\\]^_"

AsciiHi == "abcdefghijklmnopqrstuvwxyz{|}~"

CharAt(s, i) == SubSeq(s, i, i)

B64Char(i) == CharAt(B64, i + 1)

IsB64(c) == \E i \in 0..63 : B64Char(i) = c

B64Index(c) == CHOOSE i \in 0..63 : B64Char(i) = c

IsLatin1(c) ==
  \/ c = "\n"
  \/ \E i \in 1..Len(AsciiLo) : CharAt(AsciiLo, i) = c
  \/ \E i \in 1..Len(AsciiHi) : CharAt(AsciiHi, i) = c

\* String.prototype.charCodeAt
CharCode(c) ==
  IF c = "\n" THEN 10
  ELSE IF \E i \in 1..Len(AsciiLo) : CharAt(AsciiLo, i) = c
    THEN 31 + (CHOOSE i \in 1..Len(AsciiLo) : CharAt(AsciiLo, i) = c)
  ELSE 96 + (CHOOSE i \in 1..Len(AsciiHi) : CharAt(AsciiHi, i) = c)

\* String.fromCharCode
CharOf(code) ==
  IF code = 10 THEN "\n"
  ELSE IF code >= 32 /\ code <= 95 THEN CharAt(AsciiLo, code - 31)
  ELSE IF code >= 97 /\ code <= 126 THEN CharAt(AsciiHi, code - 96)
  ELSE "\\x" \o ToString(code)

AllLatin1(s) == \A i \in 1..Len(s) : IsLatin1(CharAt(s, i))

AllB64(s) == \A i \in 1..Len(s) : IsB64(CharAt(s, i))

RECURSIVE Btoa3(_)
Btoa3(s) ==
  IF s = "" THEN ""
  ELSE LET n  == Len(s)
           b1 == CharCode(CharAt(s, 1))
           b2 == IF n >= 2 THEN CharCode(CharAt(s, 2)) ELSE 0
           b3 == IF n >= 3 THEN CharCode(CharAt(s, 3)) ELSE 0
           c1 == B64Char(b1 \div 4)
           c2 == B64Char((b1 % 4) * 16 + (b2 \div 16))
           c3 == IF n >= 2 THEN B64Char((b2 % 16) * 4 + (b3 \div 64)) ELSE "="
           c4 == IF n >= 3 THEN B64Char(b3 % 64) ELSE "="
       IN  c1 \o c2 \o c3 \o c4 \o
           (IF n > 3 THEN Btoa3(SubSeq(s, 4, n)) ELSE "")

\* the text passed on as it is
btoaPlain(s) == [ok |-> TRUE, value |-> s]

\* window.btoa: [ok, value]; not ok is the InvalidCharacterError it throws
btoa(s) ==
  IF AllLatin1(s) THEN [ok |-> TRUE, value |-> Btoa3(s)]
  ELSE [ok |-> FALSE, value |-> ""]

IsAsciiSpace(c) == c \in {" ", "\n", "\t", "\r"}

RECURSIVE StripSpace(_)
StripSpace(s) ==
  IF s = "" THEN ""
  ELSE (IF IsAsciiSpace(CharAt(s, 1)) THEN "" ELSE CharAt(s, 1))
       \o StripSpace(SubSeq(s, 2, Len(s)))

\* the forgiving-base64 decode: trailing padding removed from a length that
\* is a multiple of four
StripPad(s) ==
  IF Len(s) % 4 = 0 /\ Len(s) >= 2 /\ SubSeq(s, Len(s) - 1, Len(s)) = "=="
    THEN SubSeq(s, 1, Len(s) - 2)
  ELSE IF Len(s) % 4 = 0 /\ Len(s) >= 1 /\ CharAt(s, Len(s)) = "="
    THEN SubSeq(s, 1, Len(s) - 1)
  ELSE s

RECURSIVE Atob4(_)
Atob4(s) ==
  IF Len(s) < 2 THEN ""
  ELSE LET n  == Len(s)
           i1 == B64Index(CharAt(s, 1))
           i2 == B64Index(CharAt(s, 2))
           i3 == IF n >= 3 THEN B64Index(CharAt(s, 3)) ELSE 0
           i4 == IF n >= 4 THEN B64Index(CharAt(s, 4)) ELSE 0
           o1 == CharOf(i1 * 4 + (i2 \div 16))
           o2 == IF n >= 3 THEN CharOf((i2 % 16) * 16 + (i3 \div 4)) ELSE ""
           o3 == IF n >= 4 THEN CharOf((i3 % 4) * 64 + i4) ELSE ""
       IN  o1 \o o2 \o o3 \o (IF n > 4 THEN Atob4(SubSeq(s, 5, n)) ELSE "")

\* window.atob: [ok, value]; not ok is the InvalidCharacterError it throws
atob(s) ==
  LET d == StripPad(StripSpace(s))
  IN  IF Len(d) % 4 = 1 \/ ~AllB64(d)
        THEN [ok |-> FALSE, value |-> ""]
        ELSE [ok |-> TRUE, value |-> Atob4(d)]

(***************************************************************************)
(* The credential store.                                                   *)
(***************************************************************************)
Tokens == {"tok"}

getGitHubToken == localStorage

\* `!token`: null and the empty string are falsy
Falsy(tok) == tok = <<>> \/ tok = <<"">>

\* `${token}` in a template literal
TokenText(tok) == IF tok = <<>> THEN "null" ELSE tok[1]

setGitHubToken(t) == localStorage' = <<t>>

clearGitHubToken == localStorage' = <<>>

(***************************************************************************)
(* Requests, responses and results.                                        *)
(***************************************************************************)
Owner == "o"

RepoName == "r"

\* the file the client operations and the commit flow read and write
FilePath == "main.tf"

Branches == {"main", "dev"}

NewBranches == {"feat"}

AllBranches == Branches \cup NewBranches

Contents == {"a", "b"}

ApiBase == "https://api.github.com"

NoBody == [none |-> TRUE]

\* a request handed to fetch: kind, path and branch name the route of url
Request(method, url, tok, kind, path, branch, body) ==
  [method |-> method, url |-> ApiBase \o url,
   auth |-> "Bearer " \o TokenText(tok),
   kind |-> kind, path |-> path, branch |-> branch, body |-> body]

\* the reason phrase of an HTTP/1.1 status line
ReasonPhrase(status) ==
  CASE status = 200 -> "OK"
    [] status = 201 -> "Created"
    [] status = 401 -> "Unauthorized"
    [] status = 403 -> "Forbidden"
    [] status = 404 -> "Not Found"
    [] status = 409 -> "Conflict"
    [] status = 422 -> "Unprocessable Entity"
    [] OTHER        -> "Internal Server Error"

\* Response.statusText: the reason phrase, or empty over HTTP/2 (for a
\* success only the reason phrase: no code reads the text of a success).
\* The reason phrase is the server's free text: one that repeats the code
\* is allowed for.
StatusTexts(status) ==
  IF status >= 200 /\ status <= 299 THEN {ReasonPhrase(status)}
  ELSE IF status = 401 THEN {ReasonPhrase(status), "", "401 Unauthorized"}
  ELSE {ReasonPhrase(status), ""}

Http(status, body) ==
  {[kind |-> "http", status |-> status, statusText |-> t, body |-> body] :
     t \in StatusTexts(status)}

\* fetch rejects: no response at all
Rejected ==
  [kind |-> "reject", status |-> 0, statusText |-> "", body |-> NoBody]

\* Response.ok
ResponseOk(resp) ==
  resp.kind = "http" /\ resp.status >= 200 /\ resp.status <= 299

\* a settled promise: fulfilled with a value or rejected with an Error
Ok(v) == [kind |-> "ok", value |-> v, message |-> ""]

Err(m) == [kind |-> "error", value |-> NoBody, message |-> m]

Pending == [kind |-> "pending", value |-> NoBody, message |-> ""]

NoTokenMessage == "No GitHub token found"

FetchFailedMessage == "Failed to fetch"

Outstanding == Len(sent) - Len(recv)

(***************************************************************************)
(* The source-control host, as its REST interface answers.  A commit is    *)
(* numbered by its hash; the revision marker of a file is content          *)
(* addressed.                                                              *)
(***************************************************************************)
\* the revision marker ("sha") of a file with this content
BlobSha(content) == "blob-" \o content

NoFile == [exists |-> FALSE, content |-> ""]

FileOf(content) == [exists |-> TRUE, content |-> content]

FileStates == {NoFile} \cup {FileOf(c) : c \in Contents}

\* the branch a request without ?ref= reads
DefaultBranch == "main"

RefPrefix == "refs/heads/"

Entry(name, type) ==
  [name |-> name, path |-> name, type |-> type, sha |-> BlobSha(name)]

\* the entries a root listing is made of
EntryPool ==
  {Entry("docker-compose.yml", "file"), Entry("docker-compose.yaml", "file"),
   Entry("docker-compose.yml.bak", "file"), Entry("Dockerfile", "file"),
   Entry("Dockerfile.k8s.tf", "file"), Entry("infra.tf", "file"),
   Entry("k8s-manifests", "dir"), Entry("Readme.Dockerfile", "file")}

\* the content of the file behind a root entry
EntryContent(name) == "#" \o name

ErrorBody == [message |-> "error"]

\* A JSON array is the record [items |-> its elements].

\* the payload of GET contents/:path for a file
FilePayload(name, content) ==
  [name |-> name, path |-> name, sha |-> BlobSha(content), type |-> "file",
   content |-> <<btoa(content).value \o "\n">>, encoding |-> <<"base64">>]

\* GET contents/:path for a directory answers with an array: it has no
\* content and no encoding property
DirPayload(name) ==
  [name |-> name, path |-> name, sha |-> BlobSha(name), type |-> "dir",
   content |-> <<>>, encoding |-> <<>>]

Unchanged(resps) ==
  {[resp |-> r, head |-> hostHead, commits |-> hostCommits] : r \in resps}

\* what the host may answer whatever the request: the token is refused, the
\* host fails, or no response arrives
Failures == Http(401, ErrorBody) \cup {Rejected}

BranchOf(req) == IF req.branch = <<>> THEN DefaultBranch ELSE req.branch[1]

HostGetContents(req) ==
  LET b == BranchOf(req)
  IN  IF b \notin AllBranches \/ hostHead[b] = 0
        THEN Http(404, ErrorBody)
      ELSE IF req.path = ""
        THEN Http(200, [items |-> hostRoot])
      ELSE IF req.path = FilePath
        THEN LET f == hostCommits[hostHead[b]]
             IN  IF f.exists THEN Http(200, FilePayload(FilePath, f.content))
                 ELSE Http(404, ErrorBody)
      ELSE IF \E i \in 1..Len(hostRoot) : hostRoot[i].path = req.path
        THEN LET e == hostRoot[CHOOSE i \in 1..Len(hostRoot) :
                                 hostRoot[i].path = req.path]
             IN  IF e.type = "file"
                   THEN Http(200, FilePayload(e.name, EntryContent(e.name)))
                   ELSE Http(200, DirPayload(e.name))
      ELSE Http(404, ErrorBody)

\* PUT contents/:path: a write whose marker is not the current one is
\* rejected (409), an accepted one makes a commit on the branch
HostPutContents(req) ==
  LET b == req.body.branch
      f == hostCommits[hostHead[b]]
      d == atob(req.body.content)
  IN  IF b \notin AllBranches \/ hostHead[b] = 0
        THEN Unchanged(Http(404, ErrorBody))
      ELSE IF req.path # FilePath \/ ~d.ok
        THEN Unchanged(Http(422, ErrorBody))
      ELSE IF ~f.exists \/ req.body.sha # <<BlobSha(f.content)>>
        THEN Unchanged(Http(409, ErrorBody))
      ELSE IF Len(hostCommits) >= MaxSha
        THEN {}
      ELSE {[resp |-> r,
             head |-> [hostHead EXCEPT ![b] = Len(hostCommits) + 1],
             commits |-> Append(hostCommits, FileOf(d.value))] :
              r \in Http(200, [content |-> [sha |-> BlobSha(d.value)]])}

\* GET git/refs/heads/:branch
HostGetRef(req) ==
  LET b == BranchOf(req)
  IN  IF b \in AllBranches /\ hostHead[b] # 0
        THEN Http(200, [object |-> [sha |-> <<hostHead[b]>>]])
        ELSE Http(404, ErrorBody)

\* POST git/refs: the ref must be new and the hash a commit of the repository
HostCreateRef(req) ==
  LET ref == req.body.ref
      b   == SubSeq(ref, Len(RefPrefix) + 1, Len(ref))
      h   == req.body.sha
  IN  IF /\ StartsWith(ref, RefPrefix)
         /\ b \in AllBranches
         /\ hostHead[b] = 0
         /\ h # <<>>
         /\ h[1] \in 1..Len(hostCommits)
        THEN {[resp |-> r, head |-> [hostHead EXCEPT ![b] = h[1]],
               commits |-> hostCommits] :
                r \in Http(201, [ref |-> ref, object |-> [sha |-> h]])}
        ELSE Unchanged(Http(422, ErrorBody))

\* GET branches: the branches there are, by name
HostBranchList ==
  LET Exists(b) == hostHead[b] # 0
      item(b)   == [name |-> b, commit |-> [sha |-> <<hostHead[b]>>]]
  IN  [i \in 1..Len(SelectSeq(<<"dev", "feat", "main">>, Exists)) |->
         item(SelectSeq(<<"dev", "feat", "main">>, Exists)[i])]

\* every way the host may answer req: the response and the host's state after
Replies(req) ==
  Unchanged(Failures) \cup
  CASE req.kind = "user" -> Unchanged(Http(200, [login |-> "u", id |-> 1]))
    [] req.kind = "repos" ->
         Unchanged(Http(200, [items |-> <<[id |-> 1, full_name |-> Owner \o "/" \o RepoName]>>]))
    [] req.kind = "branches" ->
         Unchanged(Http(200, [items |-> HostBranchList]))
    [] req.kind = "contents" -> Unchanged(HostGetContents(req))
    [] req.kind = "put" -> HostPutContents(req)
    [] req.kind = "ref" -> Unchanged(HostGetRef(req))
    [] req.kind = "newref" -> HostCreateRef(req)

\* another party pushes to a branch, or creates it from the default branch
HostPush(b, f) ==
  /\ Len(hostCommits) < MaxSha
  /\ hostHead[DefaultBranch] # 0
  /\ hostCommits' = Append(hostCommits, f)
  /\ hostHead' = [hostHead EXCEPT ![b] = Len(hostCommits) + 1]
  /\ UNCHANGED hostRoot

(***************************************************************************)
(* The host API client (src/src/lib/github.ts).  An operation is started   *)
(* (the code up to its first await) and resumed with each response; both   *)
(* give the operation's result so far and the request it issues next.      *)
(***************************************************************************)
Ops ==
  {"getGitHubUser", "getGitHubRepos", "getRepoBranches", "getRepoFile",
   "getRepoContents", "updateRepoFile", "createBranch"}

Args(path, branch, content, message, sha, newBranchName, fromBranch) ==
  [path |-> path, branch |-> branch, content |-> content,
   message |-> message, sha |-> sha, newBranchName |-> newBranchName,
   fromBranch |-> fromBranch]

NoArgs == Args("", <<>>, "", "", <<>>, "", "")

Settled(result) == [result |-> result, req |-> <<>>]

Awaiting(req) == [result |-> Pending, req |-> <<req>>]

RepoUrl == "/repos/" \o Owner \o "/" \o RepoName

\* branch ? `?ref=${branch}` : ''
RefQuery(branch) ==
  IF branch = <<>> \/ branch = <<"">> THEN "" ELSE "?ref=" \o branch[1]

\* githubApi without its guard on the token
githubApiHasTokenUnchecked(tok) == TRUE

githubApiHasToken(tok) == ~Falsy(tok)

githubApiError(statusText) == "GitHub API error: " \o statusText

\* githubApi up to its fetch
githubApiStart(tok, url, kind, path, branch) ==
  IF ~githubApiHasToken(tok) THEN Settled(Err(NoTokenMessage))
  ELSE Awaiting(Request("GET", url, tok, kind, path, branch, NoBody))

\* githubApi from its fetch on
githubApiSettle(resp) ==
  IF resp.kind = "reject" THEN Err(FetchFailedMessage)
  ELSE IF ~ResponseOk(resp) THEN Err(githubApiError(resp.statusText))
  ELSE Ok(resp.body)

getGitHubUserStart(tok) == githubApiStart(tok, "/user", "user", "", <<>>)

getGitHubReposStart(tok) ==
  githubApiStart(tok, "/user/repos?sort=updated&per_page=100", "repos", "", <<>>)

getRepoBranchesStart(tok) ==
  githubApiStart(tok, RepoUrl \o "/branches", "branches", "", <<>>)

getRepoContentsStart(tok, path, branch) ==
  githubApiStart(tok, RepoUrl \o "/contents/" \o path \o RefQuery(branch),
                 "contents", path, branch)

getRepoFileStart(tok, path, branch) ==
  githubApiStart(tok, RepoUrl \o "/contents/" \o path \o RefQuery(branch),
                 "contents", path, branch)

\* a read that decodes nothing
getRepoFileDecodesNothing(data) == FALSE

\* data.content && data.encoding === 'base64'
getRepoFileDecodes(data) ==
  data.content # <<>> /\ data.content # <<"">> /\ data.encoding = <<"base64">>

getRepoFileSettle(resp) ==
  LET r == githubApiSettle(resp)
  IN  IF r.kind # "ok" THEN r
      ELSE IF ~getRepoFileDecodes(r.value) THEN r
      ELSE LET d == atob(r.value.content[1])
           IN  IF d.ok THEN Ok([r.value EXCEPT !.content = <<d.value>>])
               ELSE Err("InvalidCharacterError")

updateRepoFileHasToken(tok) == ~Falsy(tok)

\* the error of updateRepoFile without the status text
updateRepoFileErrorNoText(statusText) == "Failed to update file"

updateRepoFileError(statusText) == "Failed to update file: " \o statusText

updateRepoFileStart(tok, path, content, message, sha, branch) ==
  IF ~updateRepoFileHasToken(tok) THEN Settled(Err(NoTokenMessage))
  ELSE IF ~btoa(content).ok THEN Settled(Err("InvalidCharacterError"))
  ELSE Awaiting(Request("PUT", RepoUrl \o "/contents/" \o path, tok, "put",
                        path, <<>>,
                        [message |-> message, content |-> btoa(content).value,
                         sha |-> sha, branch |-> branch]))

updateRepoFileSettle(resp) ==
  IF resp.kind = "reject" THEN Err(FetchFailedMessage)
  ELSE IF ~ResponseOk(resp) THEN Err(updateRepoFileError(resp.statusText))
  ELSE Ok(resp.body)

createBranchHasToken(tok) == ~Falsy(tok)

createBranchError(statusText) == "Failed to create branch: " \o statusText

\* createBranch up to the head lookup of fromBranch
createBranchStart(tok, newBranchName, fromBranch) ==
  IF ~createBranchHasToken(tok) THEN Settled(Err(NoTokenMessage))
  ELSE githubApiStart(tok, RepoUrl \o "/git/refs/heads/" \o fromBranch,
                      "ref", "", <<fromBranch>>)

\* the ref-creation request with the hash left out
createBranchPostNoSha(tok, newBranchName, sha) ==
  Request("POST", RepoUrl \o "/git/refs", tok, "newref", "", <<>>,
          [ref |-> RefPrefix \o newBranchName, sha |-> <<>>])

\* the ref-creation request, for the hash the lookup returned
createBranchPost(tok, newBranchName, sha) ==
  Request("POST", RepoUrl \o "/git/refs", tok, "newref", "", <<>>,
          [ref |-> RefPrefix \o newBranchName, sha |-> sha])

\* createBranch going on to the ref creation whatever the lookup answered
createBranchAfterLookupUnchecked(tok, newBranchName, resp) ==
  Awaiting(Request("POST", RepoUrl \o "/git/refs", tok, "newref", "", <<>>,
                   [ref |-> RefPrefix \o newBranchName,
                    sha |-> IF ResponseOk(resp) THEN resp.body.object.sha
                            ELSE <<>>]))

\* createBranch from the lookup's response to the ref-creation request
createBranchAfterLookup(tok, newBranchName, resp) ==
  LET r == githubApiSettle(resp)
  IN  IF r.kind # "ok" THEN Settled(r)
      ELSE Awaiting(createBranchPost(tok, newBranchName, r.value.object.sha))

\* createBranch from the ref-creation response on
createBranchSettle(newBranchName, resp) ==
  IF resp.kind = "reject" THEN Err(FetchFailedMessage)
  ELSE IF ~ResponseOk(resp) THEN Err(createBranchError(resp.statusText))
  ELSE Ok([name |-> newBranchName, commit |-> [sha |-> resp.body.object.sha]])

\* an operation, started with the token the store holds
OpStart(op, a, tok) ==
  CASE op = "getGitHubUser"   -> getGitHubUserStart(tok)
    [] op = "getGitHubRepos"  -> getGitHubReposStart(tok)
    [] op = "getRepoBranches" -> getRepoBranchesStart(tok)
    [] op = "getRepoFile"     -> getRepoFileStart(tok, a.path, a.branch)
    [] op = "getRepoContents" -> getRepoContentsStart(tok, a.path, a.branch)
    [] op = "updateRepoFile"  ->
         updateRepoFileStart(tok, a.path, a.content, a.message, a.sha, a.branch[1])
    [] op = "createBranch"    ->
         createBranchStart(tok, a.newBranchName, a.fromBranch)

\* an operation, resumed with its n-th response
OpResume(op, a, tok, n, resp) ==
  CASE op = "getRepoFile"    -> Settled(getRepoFileSettle(resp))
    [] op = "updateRepoFile" -> Settled(updateRepoFileSettle(resp))
    [] op = "createBranch"   ->
         IF n = 1 THEN createBranchAfterLookup(tok, a.newBranchName, resp)
         ELSE Settled(createBranchSettle(a.newBranchName, resp))
    [] OTHER                 -> Settled(githubApiSettle(resp))

(***************************************************************************)
(* analyzeRepository (src/src/lib/github.ts): the scan of the repository   *)
(* root.  scan.i and scan.rule are the entry and the classification rule   *)
(* (1 docker-compose, 2 Dockerfile, 3 Terraform, 4 Kubernetes) the loop is *)
(* at; scan.thrown is the error that left the call, <<>> when none did.    *)
(***************************************************************************)
EmptyAnalysis ==
  [hasDockerCompose |-> FALSE, hasDockerfile |-> FALSE,
   hasTerraform |-> FALSE, hasKubernetes |-> FALSE,
   dockerComposeFile |-> <<>>, dockerfiles |-> <<>>,
   terraformFiles |-> <<>>, kubernetesFiles |-> <<>>]

ScanIdle ==
  [pc |-> "idle", branch |-> <<>>, root |-> <<>>, i |-> 0, rule |-> 0,
   analysis |-> EmptyAnalysis, logged |-> <<>>, thrown |-> <<>>]

(***************************************************************************)
(* GitHubAuthPage (src/src/app/auth/github/page.tsx): the repo picker.     *)
(* picker.timer is the pending setTimeout that leads to the landing page.  *)
(***************************************************************************)
PickerIdle ==
  [pc |-> "landing", repos |-> <<>>, loading |-> TRUE, error |-> <<>>,
   timer |-> FALSE]

\* err.message.includes('401')
fetchReposUnauthorized(message) == Includes(message, "401")

\* fetchRepos from the response of getGitHubRepos on
fetchReposSettle(pk, r) ==
  IF r.kind = "ok"
    THEN [pk EXCEPT !.pc = "shown", !.repos = r.value.items, !.loading = FALSE]
    ELSE [pk EXCEPT !.pc = "shown", !.error = <<r.message>>, !.loading = FALSE,
                    !.timer = fetchReposUnauthorized(r.message)]

(***************************************************************************)
(* ProjectPage and FileModificationDialog                                  *)
(* (src/src/app/project/[id]/page.tsx): the commit flow.  page.pc is the   *)
(* await handleCommitChanges is at; the dialog is mounted while page.show  *)
(* holds and a change is pending.  The page's calls to its own backend are *)
(* left out.                                                               *)
(***************************************************************************)
\* the dialog's state when it is mounted or opened
DialogInit(currentBranch) ==
  [selectedBranch |-> currentBranch, createNewBranch |-> FALSE,
   newBranchName |-> "", committing |-> FALSE, error |-> <<>>]

NoCommitArgs == [branch |-> "", createNew |-> FALSE, newBranchName |-> ""]

PageIdle ==
  [pc |-> "unloaded", branches |-> <<>>, pending |-> <<>>, show |-> FALSE,
   chat |-> <<>>, dialog |-> DialogInit("main"), args |-> NoCommitArgs,
   target |-> "", tok |-> <<>>]

FileChange(oldContent, newContent) ==
  [path |-> FilePath, oldContent |-> oldContent, newContent |-> newContent,
   description |-> "edit"]

\* useState<Array<{ name: string }>>: what the page keeps of a branch
BranchNames(items) == [i \in 1..Len(items) |-> [name |-> items[i].name]]

\* branches[0]?.name || 'main'
currentBranch(branches) ==
  IF branches # <<>> /\ branches[1].name # "" THEN branches[1].name ELSE "main"

DialogMounted(pg) == pg.show /\ pg.pending # <<>>

\* String.prototype.split('\n'): the pieces between the line feeds
RECURSIVE SplitFrom(_, _, _)
SplitFrom(s, start, i) ==
  IF i > Len(s) THEN <<SubSeq(s, start, Len(s))>>
  ELSE IF SubSeq(s, i, i) = "\n"
    THEN <<SubSeq(s, start, i - 1)>> \o SplitFrom(s, i + 1, i + 1)
  ELSE SplitFrom(s, start, i + 1)

SplitLines(s) == SplitFrom(s, 1, 1)

\* lines[i]: <<>> (undefined) past the end of the array
ElementAt(lines, i) == IF i <= Len(lines) THEN <<lines[i]>> ELSE <<>>

\* oldLine !== newLine
LineChanged(oldLine, newLine) == oldLine # newLine

\* {oldLine || ' '}
ShownLine(line) == IF line = <<>> \/ line = <<"">> THEN " " ELSE line[1]

\* renderDiff: a row for each index up to the longer text
renderDiff(fc) ==
  LET oldLines == SplitLines(fc.oldContent)
      newLines == SplitLines(fc.newContent)
      maxLines == IF Len(oldLines) >= Len(newLines) THEN Len(oldLines)
                                                    ELSE Len(newLines)
  IN  [i \in 1..maxLines |->
         [old     |-> ShownLine(ElementAt(oldLines, i)),
          new     |-> ShownLine(ElementAt(newLines, i)),
          changed |-> LineChanged(ElementAt(oldLines, i), ElementAt(newLines, i))]]

\* what the dialog shows of the pending change
Rendering(pg) == IF DialogMounted(pg) THEN renderDiff(pg.pending[1]) ELSE <<>>

\* String.prototype.trim, on the names the model types
Trim(name) == StripSpace(name)

\* the fetch of the current file without ?ref=: the default branch is read
commitReadRequestNoRef(path, targetBranch, tok) ==
  Request("GET", RepoUrl \o "/contents/" \o path, tok, "contents", path, <<>>,
          NoBody)

\* the fetch of the current file, for its revision marker
commitReadRequest(path, targetBranch, tok) ==
  Request("GET", RepoUrl \o "/contents/" \o path \o "?ref=" \o targetBranch,
          tok, "contents", path, <<targetBranch>>, NoBody)

commitReadSettle(resp) ==
  IF resp.kind = "reject" THEN Err(FetchFailedMessage)
  ELSE IF ~ResponseOk(resp) THEN Err("Failed to get file")
  ELSE Ok(resp.body)

\* the commit message (its emoji left out)
commitMessage(fc) ==
  "Update " \o fc.path \o ": " \o fc.description
    \o "\n\nGenerated with Terra\nhttps://github.com/terraform-on-cloud/terra"

\* the call of updateRepoFile
commitWriteStart(fc, fileData, targetBranch, tok) ==
  updateRepoFileStart(tok, fc.path, fc.newContent, commitMessage(fc),
                      <<fileData.sha>>, targetBranch)

successMessage(targetBranch) ==
  "Successfully committed changes to " \o targetBranch
    \o "! You can view the changes at https://github.com/" \o Owner \o "/"
    \o RepoName \o "/tree/" \o targetBranch

\* a catch that logs the error and returns
handleCommitChangesCatchSwallow(err) == Ok(NoBody)

\* the catch of handleCommitChanges: the error is logged and thrown again
handleCommitChangesCatch(err) == err

\* handleCommitChanges throws err: handleConfirm shows it and the dialog
\* stays.  (The variables of the call end with it; the state of the dialog
\* ends when it is unmounted.)
commitFail(pg, err) ==
  LET out == handleCommitChangesCatch(err)
  IN  IF out.kind = "error"
        THEN [pg EXCEPT !.pc = "ready", !.dialog.error = <<out.message>>,
                        !.dialog.committing = FALSE,
                        !.args = NoCommitArgs, !.target = "", !.tok = <<>>]
        ELSE [pg EXCEPT !.pc = "ready", !.show = FALSE, !.pending = <<>>,
                        !.dialog = DialogInit("main"),
                        !.args = NoCommitArgs, !.target = "", !.tok = <<>>]

\* a return that says so in the chat and leaves the dialog and the change
commitSucceedKeeping(pg) ==
  [pg EXCEPT !.pc = "ready", !.chat = Append(@, successMessage(pg.target)),
             !.dialog.committing = FALSE,
             !.args = NoCommitArgs, !.target = "", !.tok = <<>>]

\* handleCommitChanges returns: the chat says so and the dialog closes
commitSucceed(pg) ==
  [pg EXCEPT !.pc = "ready", !.chat = Append(@, successMessage(pg.target)),
             !.show = FALSE, !.pending = <<>>, !.dialog = DialogInit("main"),
             !.args = NoCommitArgs, !.target = "", !.tok = <<>>]

\* handleCommitChanges from the read of the file on
commitRead(pg, tok) ==
  [pg |-> [pg EXCEPT !.pc = "read"],
   req |-> <<commitReadRequest(pg.pending[1].path, pg.target, tok)>>]

\* handleCommitChanges up to its first await
handleCommitChangesStart(pg, branch, createNew, newBranchName, tok) ==
  LET st == createBranchStart(tok, newBranchName, branch)
      p0 == [pg EXCEPT !.target = branch, !.tok = tok,
                       !.args = [branch |-> branch, createNew |-> createNew,
                                 newBranchName |-> newBranchName]]
  IN  IF createNew /\ newBranchName # ""
        THEN IF st.req = <<>>
               THEN [pg |-> commitFail(p0, st.result), req |-> <<>>]
               ELSE [pg |-> [p0 EXCEPT !.pc = "lookup"], req |-> st.req]
        ELSE commitRead(p0, tok)

\* handleCommitChanges resumed with a response
handleCommitChangesResume(pg, resp, tok) ==
  CASE pg.pc = "lookup" ->
         LET st == createBranchAfterLookup(pg.tok, pg.args.newBranchName, resp)
         IN  IF st.req = <<>>
               THEN [pg |-> commitFail(pg, st.result), req |-> <<>>]
               ELSE [pg |-> [pg EXCEPT !.pc = "newref"], req |-> st.req]
    [] pg.pc = "newref" ->
         LET r == createBranchSettle(pg.args.newBranchName, resp)
         IN  IF r.kind # "ok"
               THEN [pg |-> commitFail(pg, r), req |-> <<>>]
               ELSE commitRead([pg EXCEPT !.target = pg.args.newBranchName], tok)
    [] pg.pc = "read" ->
         LET r  == commitReadSettle(resp)
             st == commitWriteStart(pg.pending[1], r.value, pg.target, tok)
         IN  IF r.kind # "ok"
               THEN [pg |-> commitFail(pg, r), req |-> <<>>]
             ELSE IF st.req = <<>>
               THEN [pg |-> commitFail(pg, st.result), req |-> <<>>]
             ELSE [pg |-> [pg EXCEPT !.pc = "write"], req |-> st.req]
    [] pg.pc = "write" ->
         LET r == updateRepoFileSettle(resp)
         IN  IF r.kind # "ok"
               THEN [pg |-> commitFail(pg, r), req |-> <<>>]
               ELSE [pg |-> commitSucceed(pg), req |-> <<>>]

\* handleConfirm up to its await of onConfirm
handleConfirmStart(pg, tok) ==
  LET d == pg.dialog
      p0 == [pg EXCEPT !.dialog.committing = TRUE, !.dialog.error = <<>>]
  IN  IF d.createNewBranch /\ Trim(d.newBranchName) = ""
        THEN [pg |-> [pg EXCEPT !.dialog.error = <<"Please enter a branch name">>],
              req |-> <<>>]
        ELSE handleCommitChangesStart(
               p0, d.selectedBranch, d.createNewBranch,
               IF d.createNewBranch THEN d.newBranchName ELSE "", tok)

(***************************************************************************)
(* A caller that runs one host API client operation at a time, while the   *)
(* credential comes and goes and other parties push to the host.           *)
(***************************************************************************)
IdleCall ==
  [op |-> "", args |-> NoArgs, tok |-> <<>>, pc |-> "idle", result |-> Pending]

RootOfInit == <<Entry("Dockerfile", "file")>>

Init ==
  /\ localStorage = <<>>
  /\ hostHead = [b \in AllBranches |-> IF b = DefaultBranch THEN 1 ELSE 0]
  /\ hostCommits = <<FileOf("a")>>
  /\ hostRoot = RootOfInit
  /\ sent = <<>>
  /\ recv = <<>>
  /\ call = IdleCall
  /\ scan = ScanIdle
  /\ picker = PickerIdle
  /\ page = PageIdle
  /\ diff = <<>>

\* the arguments the caller passes
CallArgs(op) ==
  CASE op = "getRepoFile" ->
         {Args(FilePath, b, "", "", <<>>, "", "") : b \in {<<>>, <<"main">>, <<"dev">>}}
    [] op = "getRepoContents" ->
         {Args("", b, "", "", <<>>, "", "") : b \in {<<>>, <<"dev">>}}
    [] op = "updateRepoFile" ->
         {Args(FilePath, <<"main">>, c, "m", <<BlobSha(m)>>, "", "") :
            c \in {"b"}, m \in Contents}
    [] op = "createBranch" ->
         {Args("", <<>>, "", "", <<>>, n, f) : n \in NewBranches, f \in Branches}
    [] OTHER -> {NoArgs}

\* the OAuth callback stores a token
Login(t) ==
  /\ setGitHubToken(t)
  /\ UNCHANGED <<hostVars, sent, recv, call, scan, picker, page, diff>>

\* the token is cleared
Logout ==
  /\ localStorage # <<>>
  /\ clearGitHubToken
  /\ UNCHANGED <<hostVars, sent, recv, call, scan, picker, page, diff>>

\* the file at the head of b, or where b would start from
HeadContent(b) ==
  hostCommits[hostHead[IF hostHead[b] = 0 THEN DefaultBranch ELSE b]].content

\* another party pushes
Push(b, f) ==
  /\ HostPush(b, f)
  /\ UNCHANGED <<localStorage, sent, recv, call, scan, picker, page, diff>>

ClientInvoke(op, a) ==
  /\ call.pc = "idle"
  /\ LET st == OpStart(op, a, getGitHubToken)
     IN  /\ call' = [op |-> op, args |-> a, tok |-> getGitHubToken,
                     pc |-> IF st.req = <<>> THEN "done" ELSE "await",
                     result |-> st.result]
         /\ sent' = st.req
  /\ recv' = <<>>
  /\ UNCHANGED <<localStorage, hostVars, scan, picker, page, diff>>

ClientRespond ==
  /\ call.pc = "await"
  /\ Outstanding = 1
  /\ \E o \in Replies(Last(sent)) :
       LET st == OpResume(call.op, call.args, call.tok, Len(recv) + 1, o.resp)
       IN  /\ recv' = Append(recv, o.resp)
           /\ hostHead' = o.head
           /\ hostCommits' = o.commits
           /\ sent' = sent \o st.req
           /\ call' = [call EXCEPT
                         !.pc = IF st.req = <<>> THEN "done" ELSE "await",
                         !.result = st.result]
  /\ UNCHANGED <<localStorage, hostRoot, scan, picker, page, diff>>

\* the caller takes the result
ClientReturn ==
  /\ call.pc = "done"
  /\ call' = IdleCall
  /\ sent' = <<>>
  /\ recv' = <<>>
  /\ UNCHANGED <<localStorage, hostVars, scan, picker, page, diff>>

NextClient ==
  \/ \E t \in Tokens : Login(t)
  \/ Logout
  \/ \E b \in Branches, c \in Contents : Push(b, FileOf(c))
  \/ \E op \in Ops : \E a \in CallArgs(op) : ClientInvoke(op, a)
  \/ ClientRespond
  \/ ClientReturn

SpecClient == Init /\ [][NextClient]_vars

(***************************************************************************)
(* getRepoFile and updateRepoFile on texts and payloads of every shape:    *)
(* what is decoded on the way in and encoded on the way out.               *)
(***************************************************************************)
CodecChars == {"a", "~", " "}

RECURSIVE Concat(_)
Concat(pieces) ==
  IF pieces = <<>> THEN "" ELSE pieces[1] \o Concat(Tail(pieces))

\* the texts of MaxText characters at most
CodecTexts ==
  {Concat(cs) : cs \in UNION {[1..n -> CodecChars] : n \in 0..MaxText}}

\* the encoding property of a payload: base64, another value, or none
Encodings == {<<"base64">>, <<"none">>, <<>>}

\* the payloads of GET contents/:path: the host's, under each encoding, and
\* one with an empty content
RawPayloads ==
  {[FilePayload(FilePath, t) EXCEPT !.encoding = e] :
     t \in CodecTexts, e \in Encodings}
  \cup {[FilePayload(FilePath, "") EXCEPT !.content = <<"">>, !.encoding = e] :
          e \in Encodings}

\* the arguments of the reads and writes
CodecArgs(op) ==
  IF op = "getRepoFile" THEN {Args(FilePath, <<>>, "", "", <<>>, "", "")}
  ELSE {Args(FilePath, <<b>>, t, m, sha, "", "") :
          b \in Branches, t \in CodecTexts, m \in {"m", "fix"},
          sha \in {<<>>, <<BlobSha("b")>>}}

\* the host answers a read with a payload
CodecRespond(data) ==
  /\ call.pc = "await"
  /\ call.op = "getRepoFile"
  /\ Outstanding = 1
  /\ LET resp == CHOOSE r \in Http(200, data) : TRUE
         st   == OpResume(call.op, call.args, call.tok, 1, resp)
     IN  /\ recv' = Append(recv, resp)
         /\ call' = [call EXCEPT !.pc = "done", !.result = st.result]
  /\ UNCHANGED <<localStorage, hostVars, sent, scan, picker, page, diff>>

NextCodec ==
  \/ \E t \in Tokens : Login(t)
  \/ \E op \in {"getRepoFile", "updateRepoFile"} :
       \E a \in CodecArgs(op) : ClientInvoke(op, a)
  \/ \E data \in RawPayloads : CodecRespond(data)
  \/ ClientRespond
  \/ ClientReturn

SpecCodec == Init /\ [][NextCodec]_vars

(***************************************************************************)
(* The scan, step by step.                                                 *)
(***************************************************************************)
\* file.name.match(/docker-compose\.(yml|yaml)/): the pattern without its anchors
matchesDockerComposeUnanchored(name) ==
  \E ext \in {"yml", "yaml"} : Includes(name, "docker-compose." \o ext)

\* file.name.match(/^docker-compose\.(yml|yaml)$/)
matchesDockerCompose(name) ==
  \E ext \in {"yml", "yaml"} : name = "docker-compose." \o ext

\* file.name.includes('Dockerfile')
matchesDockerfileContains(name) == Includes(name, "Dockerfile")

\* file.name === 'Dockerfile' || file.name.startsWith('Dockerfile.')
matchesDockerfile(name) == name = "Dockerfile" \/ StartsWith(name, "Dockerfile.")

\* file.name.endsWith('.tf')
matchesTerraform(name) == EndsWith(name, ".tf")

\* file.name.includes('k8s') || file.name.includes('kubernetes')
matchesKubernetes(name) == Includes(name, "k8s") \/ Includes(name, "kubernetes")

RuleMatches(rule, file) ==
  CASE rule = 1 -> matchesDockerCompose(file.name)
    [] rule = 2 -> matchesDockerfile(file.name)
    [] rule = 3 -> matchesTerraform(file.name)
    [] rule = 4 -> matchesKubernetes(file.name)

\* the flag a matching rule sets, before any fetch
SetFlag(a, rule) ==
  CASE rule = 1 -> [a EXCEPT !.hasDockerCompose = TRUE]
    [] rule = 2 -> [a EXCEPT !.hasDockerfile = TRUE]
    [] rule = 3 -> [a EXCEPT !.hasTerraform = TRUE]
    [] rule = 4 -> [a EXCEPT !.hasKubernetes = TRUE]

\* every matching rule fetches the entry, whatever its type
RuleFetchesAnyType(rule, file) == TRUE

\* whether a matching rule fetches the entry: the Kubernetes rule only a file
RuleFetches(rule, file) == rule # 4 \/ file.type = "file"

\* Array.prototype.unshift
ArrayUnshift(list, x) == <<x>> \o list

\* Array.prototype.push
ArrayPush(list, x) == Append(list, x)

\* where a rule puts the file it fetched
Store(a, rule, f) ==
  CASE rule = 1 -> [a EXCEPT !.dockerComposeFile = <<f>>]
    [] rule = 2 -> [a EXCEPT !.dockerfiles = ArrayPush(@, f)]
    [] rule = 3 -> [a EXCEPT !.terraformFiles = ArrayPush(@, f)]
    [] rule = 4 -> [a EXCEPT !.kubernetesFiles = ArrayPush(@, f)]

\* a catch that logs the error and throws it again
analyzeRepositoryRethrow(sc, err) ==
  [sc EXCEPT !.pc = "done", !.logged = Append(@, err.message),
             !.thrown = <<err.message>>]

\* the catch of analyzeRepository: the error is logged and the call returns
analyzeRepositoryCatch(sc, err) ==
  [sc EXCEPT !.pc = "done", !.logged = Append(@, err.message)]

\* the loop from the rule it is at, up to the next fetch or the return
RECURSIVE analyzeRepositoryLoop(_, _)
analyzeRepositoryLoop(sc, tok) ==
  IF sc.i > Len(sc.root) THEN [sc |-> [sc EXCEPT !.pc = "done"], req |-> <<>>]
  ELSE IF sc.rule > 4
    THEN analyzeRepositoryLoop([sc EXCEPT !.i = @ + 1, !.rule = 1], tok)
  ELSE IF ~RuleMatches(sc.rule, sc.root[sc.i])
    THEN analyzeRepositoryLoop([sc EXCEPT !.rule = @ + 1], tok)
  ELSE
    LET file    == sc.root[sc.i]
        flagged == [sc EXCEPT !.analysis = SetFlag(@, sc.rule)]
        st      == getRepoFileStart(tok, file.path, sc.branch)
    IN  IF ~RuleFetches(sc.rule, file)
          THEN analyzeRepositoryLoop([flagged EXCEPT !.rule = @ + 1], tok)
        ELSE IF st.req = <<>>
          THEN [sc |-> analyzeRepositoryCatch(flagged, st.result), req |-> <<>>]
        ELSE [sc |-> [flagged EXCEPT !.pc = "fetch"], req |-> st.req]

\* analyzeRepository up to the root listing
analyzeRepositoryStart(branch, tok) ==
  LET fresh == [ScanIdle EXCEPT !.branch = branch]
      st    == getRepoContentsStart(tok, "", branch)
  IN  IF st.req = <<>>
        THEN [sc |-> analyzeRepositoryCatch(fresh, st.result), req |-> <<>>]
        ELSE [sc |-> [fresh EXCEPT !.pc = "listing"], req |-> st.req]

\* analyzeRepository resumed with the root listing
analyzeRepositoryListed(sc, resp, tok) ==
  LET r == githubApiSettle(resp)
  IN  IF r.kind # "ok"
        THEN [sc |-> analyzeRepositoryCatch(sc, r), req |-> <<>>]
        ELSE analyzeRepositoryLoop(
               [sc EXCEPT !.root = r.value.items, !.i = 1, !.rule = 1], tok)

\* a scan that skips a file it cannot fetch and goes on
analyzeRepositoryFetchedSkipping(sc, resp, tok) ==
  LET r == getRepoFileSettle(resp)
  IN  IF r.kind # "ok"
        THEN analyzeRepositoryLoop(
               [sc EXCEPT !.logged = Append(@, r.message), !.rule = @ + 1], tok)
        ELSE analyzeRepositoryLoop(
               [sc EXCEPT !.analysis = Store(@, sc.rule, r.value),
                          !.rule = @ + 1], tok)

\* a scan whose rules are an else-if chain: after the first rule that
\* fetched the entry the loop goes to the next entry
analyzeRepositoryFetchedElseIf(sc, resp, tok) ==
  LET r == getRepoFileSettle(resp)
  IN  IF r.kind # "ok"
        THEN [sc |-> analyzeRepositoryCatch(sc, r), req |-> <<>>]
        ELSE analyzeRepositoryLoop(
               [sc EXCEPT !.analysis = Store(@, sc.rule, r.value),
                          !.i = @ + 1, !.rule = 1], tok)

\* analyzeRepository resumed with a file
analyzeRepositoryFetched(sc, resp, tok) ==
  LET r == getRepoFileSettle(resp)
  IN  IF r.kind # "ok"
        THEN [sc |-> analyzeRepositoryCatch(sc, r), req |-> <<>>]
        ELSE analyzeRepositoryLoop(
               [sc EXCEPT !.analysis = Store(@, sc.rule, r.value),
                          !.rule = @ + 1], tok)

RECURSIVE Listings(_)
\* the root listings of n entries at most, no name twice
Listings(n) ==
  IF n = 0 THEN {<<>>}
  ELSE LET shorter == Listings(n - 1)
           longest == {l \in shorter : Len(l) = n - 1}
       IN  shorter \cup
           {Append(x[1], x[2]) :
              x \in {y \in longest \X EntryPool :
                       \A i \in 1..Len(y[1]) : y[1][i].name # y[2].name}}

ScanStart(listing, branch) ==
  /\ scan.pc = "idle"
  /\ hostRoot' = listing
  /\ LET st == analyzeRepositoryStart(branch, getGitHubToken)
     IN  scan' = st.sc /\ sent' = st.req
  /\ recv' = <<>>
  /\ UNCHANGED <<localStorage, hostHead, hostCommits, call, picker, page, diff>>

ScanRespond ==
  /\ scan.pc \in {"listing", "fetch"}
  /\ Outstanding >= 1
  /\ \E o \in Replies(sent[Len(recv) + 1]) :
       LET st == IF scan.pc = "listing"
                   THEN analyzeRepositoryListed(scan, o.resp, getGitHubToken)
                   ELSE analyzeRepositoryFetched(scan, o.resp, getGitHubToken)
       IN  /\ recv' = Append(recv, o.resp)
           /\ sent' = sent \o st.req
           /\ scan' = st.sc
  /\ UNCHANGED <<localStorage, hostVars, call, picker, page, diff>>

\* the caller takes the analysis
ScanReturn ==
  /\ scan.pc = "done"
  /\ scan' = ScanIdle
  /\ sent' = <<>>
  /\ recv' = <<>>
  /\ hostRoot' = RootOfInit
  /\ UNCHANGED <<localStorage, hostHead, hostCommits, call, picker, page, diff>>

NextScan ==
  \/ \E t \in Tokens : Login(t)
  \/ Logout
  \/ \E l \in Listings(MaxEntries), b \in {<<>>, <<"dev">>} : ScanStart(l, b)
  \/ ScanRespond
  \/ ScanReturn

SpecScan == Init /\ [][NextScan]_vars

(***************************************************************************)
(* The repo-picker page, step by step.                                     *)
(***************************************************************************)
\* LandingPage redirects to the picker when a token is stored; the picker's
\* effect goes back when there is none, and starts fetchRepos otherwise
PickerMount ==
  /\ picker.pc = "landing"
  /\ ~Falsy(getGitHubToken)
  /\ LET st == getGitHubReposStart(getGitHubToken)
     IN  /\ sent' = st.req
         /\ picker' = [PickerIdle EXCEPT !.pc = "fetching"]
  /\ recv' = <<>>
  /\ UNCHANGED <<localStorage, hostVars, call, scan, page, diff>>

\* fetchRepos resumed with the response: on an error that reads as
\* unauthorized the token is cleared and the redirect is scheduled
PickerRespond ==
  /\ picker.pc = "fetching"
  /\ Outstanding >= 1
  /\ \E o \in Replies(sent[Len(recv) + 1]) :
       LET pk == fetchReposSettle(picker, githubApiSettle(o.resp))
       IN  /\ recv' = Append(recv, o.resp)
           /\ picker' = pk
           /\ IF pk.timer THEN clearGitHubToken ELSE UNCHANGED localStorage
  /\ UNCHANGED <<hostVars, sent, call, scan, page, diff>>

\* the setTimeout callback: router.push('/')
PickerTimer ==
  /\ picker.timer
  /\ picker' = PickerIdle
  /\ sent' = <<>>
  /\ recv' = <<>>
  /\ UNCHANGED <<localStorage, hostVars, call, scan, page, diff>>

\* the user leaves the page for the landing page
PickerLeave ==
  /\ picker.pc = "shown"
  /\ ~picker.timer
  /\ picker' = PickerIdle
  /\ sent' = <<>>
  /\ recv' = <<>>
  /\ UNCHANGED <<localStorage, hostVars, call, scan, page, diff>>

NextPicker ==
  \/ \E t \in Tokens : Login(t)
  \/ Logout
  \/ \E b \in AllBranches, c \in Contents : Push(b, FileOf(c))
  \/ PickerMount
  \/ PickerRespond
  \/ PickerTimer
  \/ PickerLeave

SpecPicker == Init /\ [][NextPicker]_vars

(***************************************************************************)
(* The project page and its dialog, step by step.                          *)
(***************************************************************************)
\* loadProjectData up to its getRepoBranches
PageLoad ==
  /\ page.pc = "unloaded"
  /\ LET st == getRepoBranchesStart(getGitHubToken)
     IN  /\ sent' = st.req
         /\ page' = [page EXCEPT !.pc = IF st.req = <<>> THEN "ready" ELSE "loading"]
  /\ recv' = <<>>
  /\ UNCHANGED <<localStorage, hostVars, call, scan, picker, diff>>

\* loadProjectData resumed: a failure is logged and the list stays empty
PageLoaded ==
  /\ page.pc = "loading"
  /\ \E o \in Replies(sent[Len(recv) + 1]) :
       LET r == githubApiSettle(o.resp)
       IN  page' = [page EXCEPT
                      !.pc = "ready",
                      !.branches = IF r.kind = "ok" THEN BranchNames(r.value.items)
                                                    ELSE <<>>]
  /\ sent' = <<>>
  /\ recv' = <<>>
  /\ UNCHANGED <<localStorage, hostVars, call, scan, picker, diff>>

\* handleSendMessage: the chat service proposes a change to the file
Propose(oldContent, newContent) ==
  /\ page.pc = "ready"
  /\ ~page.show
  /\ page' = [page EXCEPT !.pending = <<FileChange(oldContent, newContent)>>,
                          !.show = TRUE,
                          !.dialog = DialogInit(currentBranch(page.branches))]
  /\ diff' = Rendering(page')
  /\ UNCHANGED <<localStorage, hostVars, sent, recv, call, scan, picker>>

\* the select of the dialog
SelectBranch(b) ==
  /\ DialogMounted(page)
  /\ ~page.dialog.createNewBranch
  /\ \E i \in 1..Len(page.branches) : page.branches[i].name = b
  /\ page.dialog.selectedBranch # b
  /\ page' = [page EXCEPT !.dialog.selectedBranch = b]
  /\ UNCHANGED <<localStorage, hostVars, sent, recv, call, scan, picker, diff>>

\* the radio buttons of the dialog
SetCreateNewBranch(v) ==
  /\ DialogMounted(page)
  /\ page.dialog.createNewBranch # v
  /\ page' = [page EXCEPT !.dialog.createNewBranch = v]
  /\ UNCHANGED <<localStorage, hostVars, sent, recv, call, scan, picker, diff>>

\* the text input of the dialog
TypeNewBranchName(n) ==
  /\ DialogMounted(page)
  /\ page.dialog.createNewBranch
  /\ page.dialog.newBranchName # n
  /\ page' = [page EXCEPT !.dialog.newBranchName = n]
  /\ UNCHANGED <<localStorage, hostVars, sent, recv, call, scan, picker, diff>>

\* the Cancel button: onClose
Cancel ==
  /\ DialogMounted(page)
  /\ ~page.dialog.committing
  /\ page' = [page EXCEPT !.show = FALSE, !.pending = <<>>,
                          !.dialog = DialogInit("main")]
  /\ diff' = Rendering(page')
  /\ sent' = <<>>
  /\ recv' = <<>>
  /\ UNCHANGED <<localStorage, hostVars, call, scan, picker>>

\* the Commit & Push button: handleConfirm, and handleCommitChanges up to
\* its first await
Confirm ==
  /\ DialogMounted(page)
  /\ ~page.dialog.committing
  /\ LET st == handleConfirmStart(page, getGitHubToken)
     IN  /\ page' = st.pg
         /\ sent' = st.req
  /\ diff' = Rendering(page')
  /\ recv' = <<>>
  /\ UNCHANGED <<localStorage, hostVars, call, scan, picker>>

\* handleCommitChanges resumed with a response; sent and recv hold the
\* requests and responses of the call in progress
CommitRespond ==
  /\ page.pc \in {"lookup", "newref", "read", "write"}
  /\ Outstanding >= 1
  /\ \E o \in Replies(sent[Len(recv) + 1]) :
       LET st == handleCommitChangesResume(page, o.resp, getGitHubToken)
       IN  /\ hostHead' = o.head
           /\ hostCommits' = o.commits
           /\ page' = st.pg
           /\ IF st.req = <<>>
                THEN sent' = <<>> /\ recv' = <<>>
                ELSE sent' = sent \o st.req /\ recv' = Append(recv, o.resp)
  /\ diff' = Rendering(page')
  /\ UNCHANGED <<localStorage, hostRoot, call, scan, picker>>

\* The other parties' pushes are those that change the file, and the chat
\* service proposes a change of the file it finds on the default branch.
NextCommit ==
  \/ \E t \in Tokens : Login(t)
  \/ Logout
  \/ \E b \in Branches, c \in Contents : c # HeadContent(b) /\ Push(b, FileOf(c))
  \/ PageLoad
  \/ PageLoaded
  \/ \E n \in Contents :
       n # HeadContent(DefaultBranch) /\ Propose(HeadContent(DefaultBranch), n)
  \/ \E b \in AllBranches : SelectBranch(b)
  \/ \E v \in BOOLEAN : SetCreateNewBranch(v)
  \/ \E n \in NewBranches : TypeNewBranchName(n)
  \/ Cancel
  \/ Confirm
  \/ CommitRespond

SpecCommit == Init /\ [][NextCommit]_vars

(***************************************************************************)
(* The dialog opened on proposals of any two texts, for what it renders.   *)
(***************************************************************************)
DiffLines == {"", "a", "b"}

\* Array.prototype.join('\n')
RECURSIVE JoinLines(_)
JoinLines(lines) ==
  IF Len(lines) = 1 THEN lines[1]
  ELSE lines[1] \o "\n" \o JoinLines(Tail(lines))

\* the texts of MaxLines lines at most
DiffTexts ==
  {JoinLines(lines) : lines \in UNION {[1..n -> DiffLines] : n \in 1..MaxLines}}

NextDiff ==
  \/ PageLoad
  \/ \E o \in DiffTexts, n \in DiffTexts : Propose(o, n)
  \/ Cancel

SpecDiff == Init /\ [][NextDiff]_vars

(***************************************************************************)
(* Properties of the host API client, under SpecClient.                    *)
(***************************************************************************)
\* C1: an operation invoked while the credential store holds no token fails
\* with 'No GitHub token found' and issues no request.
C1_NoTokenNoRequest ==
  (call.pc # "idle" /\ call.tok = <<>>) =>
     /\ call.pc = "done"
     /\ call.result = Err("No GitHub token found")
     /\ sent = <<>>

C1_Witness ==
  /\ call.op = "getRepoFile"
  /\ call.tok = <<>>
  /\ call.pc = "done"
  /\ call.result.kind = "error"

\* C7: when the head lookup of createBranch fails, createBranch fails (with
\* the host API error for a non-success status) and no ref-creation request
\* is issued.
C7_FailedLookupSkipsRefCreation ==
  (call.op = "createBranch" /\ Len(recv) >= 1 /\ ~ResponseOk(recv[1])) =>
     /\ call.pc = "done"
     /\ Len(sent) = 1
     /\ sent[1].method = "GET"
     /\ call.result.kind = "error"
     /\ recv[1].kind = "http" =>
          call.result.message = "GitHub API error: " \o recv[1].statusText

C7_Witness ==
  /\ call.op = "createBranch"
  /\ call.pc = "done"
  /\ call.args.fromBranch = "dev"
  /\ hostHead["dev"] = 0
  /\ Len(recv) = 1
  /\ recv[1].status = 404
  /\ call.result.message = "GitHub API error: Not Found"

\* C8: the ref-creation request of createBranch is issued only after the head
\* lookup has answered, with exactly the hash it answered and for the new
\* branch's ref; nothing is requested after it, and the branch returned is at
\* that hash.
C8_RefCreatedAtLookedUpHash ==
  call.op = "createBranch" =>
     /\ Len(sent) <= 2
     /\ Len(sent) = 2 =>
          /\ ResponseOk(recv[1])
          /\ sent[1].method = "GET"
          /\ sent[1].url = "https://api.github.com/repos/o/r/git/refs/heads/"
                             \o call.args.fromBranch
          /\ sent[2].method = "POST"
          /\ sent[2].url = "https://api.github.com/repos/o/r/git/refs"
          /\ sent[2].body.ref = "refs/heads/" \o call.args.newBranchName
          /\ sent[2].body.sha = recv[1].body.object.sha
     /\ (call.pc = "done" /\ call.result.kind = "ok") =>
          /\ Len(recv) = 2
          /\ call.result.value.commit.sha = recv[1].body.object.sha

\* the source branch has moved on: the new branch is at the old hash
C8_Witness ==
  /\ call.op = "createBranch"
  /\ call.pc = "done"
  /\ call.result.kind = "ok"
  /\ hostHead[call.args.newBranchName] = call.result.value.commit.sha[1]
  /\ hostHead[call.args.fromBranch] # hostHead[call.args.newBranchName]

\* the message an operation fails with on a non-success status of its n-th
\* request, less the status text
ErrorPrefix(op, n) ==
  CASE op = "updateRepoFile" -> "Failed to update file: "
    [] op = "createBranch" /\ n = 2 -> "Failed to create branch: "
    [] OTHER -> "GitHub API error: "

\* C10: an operation sends one request per endpoint it uses (createBranch two
\* in all, the others one); a non-success status ends it with an error that
\* carries the status text, and nothing is sent after it.
C10_SingleAttempt ==
  call.pc # "idle" =>
     /\ Len(sent) <= (IF call.op = "createBranch" THEN 2 ELSE 1)
     /\ \A i, j \in 1..Len(sent) :
          i # j => <<sent[i].method, sent[i].url>> # <<sent[j].method, sent[j].url>>
     /\ \A i \in 1..Len(recv) :
          (recv[i].kind = "http" /\ ~ResponseOk(recv[i])) =>
             /\ Len(sent) = i
             /\ call.pc = "done"
             /\ call.result = Err(ErrorPrefix(call.op, i) \o recv[i].statusText)

C10_Witness ==
  /\ call.op = "updateRepoFile"
  /\ call.pc = "done"
  /\ Len(sent) = 1
  /\ recv[1].status = 409
  /\ call.result.message = "Failed to update file: Conflict"

(***************************************************************************)
(* Properties of analyzeRepository, under SpecScan.                        *)
(***************************************************************************)
\* the root listing did not arrive: no token, or a failed response
ListingFailed == sent = <<>> \/ (Len(recv) >= 1 /\ ~ResponseOk(recv[1]))

\* C2: analyzeRepository never raises: while it runs it only waits for the
\* host, and it ends with an analysis and no error thrown; when the root
\* listing fails the analysis is the default one and no file was fetched.
C2_ScanNeverRaises ==
  /\ scan.thrown = <<>>
  /\ scan.pc \in {"listing", "fetch"} => Outstanding = 1
  /\ (scan.pc = "done" /\ ListingFailed) =>
       /\ Len(sent) <= 1
       /\ scan.logged # <<>>
       /\ scan.analysis =
            [hasDockerCompose |-> FALSE, hasDockerfile |-> FALSE,
             hasTerraform |-> FALSE, hasKubernetes |-> FALSE,
             dockerComposeFile |-> <<>>, dockerfiles |-> <<>>,
             terraformFiles |-> <<>>, kubernetesFiles |-> <<>>]

C2_Witness ==
  /\ scan.pc = "done"
  /\ Len(hostRoot) = 2
  /\ Len(sent) = 1
  /\ Len(recv) = 1
  /\ recv[1].status = 404
  /\ scan.logged = <<"GitHub API error: Not Found">>

\* the place of a path in the root listing
EntryIndex(p) ==
  CHOOSE j \in 1..Len(scan.root) : scan.root[j].path = p

HasPath(list, p) == \E n \in 1..Len(list) : list[n].path = p

\* the scan stopped at entry k: nothing was requested for a later entry, what
\* the entries before k produce is in the analysis, and every flag and every
\* collected file comes from an entry up to k
StoppedAt(k) ==
  LET a     == scan.analysis
      root  == scan.root
      paths == {root[j].path : j \in 1..k}
  IN  /\ Outstanding = 0
      /\ \A n \in 2..Len(sent) : sent[n].path \in paths
      /\ \A j \in 1..(k - 1) :
           /\ matchesDockerCompose(root[j].name) =>
                a.hasDockerCompose /\ a.dockerComposeFile # <<>>
           /\ matchesDockerfile(root[j].name) =>
                a.hasDockerfile /\ HasPath(a.dockerfiles, root[j].path)
           /\ matchesTerraform(root[j].name) =>
                a.hasTerraform /\ HasPath(a.terraformFiles, root[j].path)
           /\ matchesKubernetes(root[j].name) =>
                /\ a.hasKubernetes
                /\ root[j].type = "file" =>
                     HasPath(a.kubernetesFiles, root[j].path)
      /\ a.hasDockerCompose => \E j \in 1..k : matchesDockerCompose(root[j].name)
      /\ a.hasDockerfile => \E j \in 1..k : matchesDockerfile(root[j].name)
      /\ a.hasTerraform => \E j \in 1..k : matchesTerraform(root[j].name)
      /\ a.hasKubernetes => \E j \in 1..k : matchesKubernetes(root[j].name)
      /\ a.dockerComposeFile # <<>> => a.dockerComposeFile[1].path \in paths
      /\ \A n \in 1..Len(a.dockerfiles) : a.dockerfiles[n].path \in paths
      /\ \A n \in 1..Len(a.terraformFiles) : a.terraformFiles[n].path \in paths
      /\ \A n \in 1..Len(a.kubernetesFiles) : a.kubernetesFiles[n].path \in paths

\* the file fetches that failed at the host or on the way
FailedFetches == {n \in 2..Len(recv) : ~ResponseOk(recv[n])}

\* C3: when the fetch for the k-th root entry fails (a failed response, or
\* the token gone when the fetch is started), the scan ends there: nothing is
\* requested afterwards, the analysis holds what the entries before k
\* produced, and the entries after k contribute nothing.
C3_FetchFailureStopsScan ==
  /\ \A n \in FailedFetches :
       /\ Len(sent) = n
       /\ scan.pc = "done"
       /\ StoppedAt(EntryIndex(sent[n].path))
  /\ (scan.pc = "done" /\ scan.logged # <<>> /\ scan.i >= 1
        /\ FailedFetches = {}) => StoppedAt(scan.i)

\* the second of three fetches fails: the first file is kept, the third
\* entry is never asked for
C3_Witness ==
  /\ scan.pc = "done"
  /\ Len(scan.root) = 2
  /\ matchesDockerfile(scan.root[1].name)
  /\ matchesTerraform(scan.root[2].name)
  /\ FailedFetches = {3}
  /\ EntryIndex(sent[3].path) = 1
  /\ Len(scan.analysis.dockerfiles) = 1
  /\ scan.analysis.hasTerraform
  /\ scan.analysis.terraformFiles = <<>>

\* C9: analyzeRepository has one request outstanding at most; the root
\* listing is answered before any file is fetched, files are fetched in
\* listing order, and each collection holds its files in listing order.
C9_OneRequestAtATime ==
  scan.pc # "idle" =>
     /\ Outstanding \in {0, 1}
     /\ Len(sent) >= 1 => sent[1].path = ""
     /\ Len(sent) >= 2 => ResponseOk(recv[1])
     /\ \A n \in 2..Len(sent) : HasPath(scan.root, sent[n].path)
     /\ \A m, n \in 2..Len(sent) :
          m < n => EntryIndex(sent[m].path) <= EntryIndex(sent[n].path)
     /\ \A m, n \in 1..Len(scan.analysis.dockerfiles) :
          m < n => EntryIndex(scan.analysis.dockerfiles[m].path)
                     < EntryIndex(scan.analysis.dockerfiles[n].path)
     /\ \A m, n \in 1..Len(scan.analysis.terraformFiles) :
          m < n => EntryIndex(scan.analysis.terraformFiles[m].path)
                     < EntryIndex(scan.analysis.terraformFiles[n].path)
     /\ \A m, n \in 1..Len(scan.analysis.kubernetesFiles) :
          m < n => EntryIndex(scan.analysis.kubernetesFiles[m].path)
                     < EntryIndex(scan.analysis.kubernetesFiles[n].path)

C9_Witness ==
  /\ scan.pc = "done"
  /\ scan.logged = <<>>
  /\ Len(scan.analysis.dockerfiles) = 2
  /\ Len(sent) = 5
  /\ Len(recv) = 5

\* the scan returned after the listing and every fetch it made succeeded
ScanCompleted == scan.pc = "done" /\ scan.logged = <<>> /\ Len(scan.root) >= 1

\* the file getRepoFile returns for a root entry is the entry's, decoded
IsFileOf(f, e) == f.path = e.path /\ f.content = <<EntryContent(e.name)>>

ComposeNames == {"docker-compose.yml", "docker-compose.yaml"}

\* the places of the compose entries in the root listing
ComposeEntries == {j \in 1..Len(scan.root) : scan.root[j].name \in ComposeNames}

DockerfileEntries ==
  {j \in 1..Len(scan.root) :
     \/ scan.root[j].name = "Dockerfile"
     \/ /\ Len(scan.root[j].name) >= 11
        /\ SubSeq(scan.root[j].name, 1, 11) = "Dockerfile."}

\* the places in a collection of the files with an entry's path
PlacesOf(list, e) == {n \in 1..Len(list) : list[n].path = e.path}

\* C12: an entry is under the container-build rule exactly when its name is
\* Dockerfile or starts with "Dockerfile.": hasDockerfile is set only when
\* the listing has such an entry, every file in dockerfiles is the fetched
\* file of such an entry and no entry has two, and after a scan in which
\* nothing failed each such entry has exactly one file there; an entry that
\* only contains "Dockerfile" (Readme.Dockerfile) sets nothing and is not
\* fetched.
C12_DockerfileRule ==
  scan.pc # "idle" =>
    /\ scan.analysis.hasDockerfile => DockerfileEntries # {}
    /\ \A n \in 1..Len(scan.analysis.dockerfiles) :
         \E j \in DockerfileEntries :
           IsFileOf(scan.analysis.dockerfiles[n], scan.root[j])
    /\ \A j \in 1..Len(scan.root) :
         Cardinality(PlacesOf(scan.analysis.dockerfiles, scan.root[j])) <= 1
    /\ \A n \in 2..Len(sent) : sent[n].path # "Readme.Dockerfile"
    /\ ScanCompleted =>
         /\ scan.analysis.hasDockerfile <=> DockerfileEntries # {}
         /\ Len(scan.analysis.dockerfiles) = Cardinality(DockerfileEntries)
         /\ \A j \in DockerfileEntries :
              Cardinality(PlacesOf(scan.analysis.dockerfiles, scan.root[j])) = 1

\* a listing of Readme.Dockerfile and Dockerfile.k8s.tf: one file collected
C12_Witness ==
  /\ ScanCompleted
  /\ Len(scan.root) = 2
  /\ scan.root[1].name = "Readme.Dockerfile"
  /\ scan.root[2].name = "Dockerfile.k8s.tf"
  /\ scan.analysis.hasDockerfile
  /\ Len(scan.analysis.dockerfiles) = 1
  /\ IsFileOf(scan.analysis.dockerfiles[1], scan.root[2])

\* the places of the entries whose name contains k8s or kubernetes
KubernetesEntries ==
  {j \in 1..Len(scan.root) :
     Includes(scan.root[j].name, "k8s") \/ Includes(scan.root[j].name, "kubernetes")}

KubernetesFileEntries == {j \in KubernetesEntries : scan.root[j].type = "file"}

\* C13: hasKubernetes is set only for a listing with an entry whose name
\* contains k8s or kubernetes, and after a scan in which nothing failed it is
\* set for every such listing, whatever the type of the entry; the files in
\* kubernetesFiles are fetched files of such entries of type "file", one for
\* each after a scan in which nothing failed; the directory k8s-manifests is
\* never fetched and has no file there.
C13_KubernetesRule ==
  scan.pc # "idle" =>
    /\ scan.analysis.hasKubernetes => KubernetesEntries # {}
    /\ \A n \in 1..Len(scan.analysis.kubernetesFiles) :
         \E j \in KubernetesFileEntries :
           IsFileOf(scan.analysis.kubernetesFiles[n], scan.root[j])
    /\ \A n \in 2..Len(sent) : sent[n].path # "k8s-manifests"
    /\ ScanCompleted =>
         /\ scan.analysis.hasKubernetes <=> KubernetesEntries # {}
         /\ Len(scan.analysis.kubernetesFiles) = Cardinality(KubernetesFileEntries)
         /\ \A j \in KubernetesFileEntries :
              Cardinality(PlacesOf(scan.analysis.kubernetesFiles, scan.root[j])) = 1

\* the listing is the directory k8s-manifests alone: the flag is set, nothing
\* is fetched and nothing is collected
C13_Witness ==
  /\ ScanCompleted
  /\ Len(scan.root) = 1
  /\ scan.root[1].name = "k8s-manifests"
  /\ scan.root[1].type = "dir"
  /\ scan.analysis.hasKubernetes
  /\ scan.analysis.kubernetesFiles = <<>>
  /\ Len(sent) = 1

\* the places of the entries whose name ends in .tf
TerraformEntries ==
  {j \in 1..Len(scan.root) :
     /\ Len(scan.root[j].name) >= 3
     /\ SubSeq(scan.root[j].name, Len(scan.root[j].name) - 2,
               Len(scan.root[j].name)) = ".tf"}

One(b) == IF b THEN 1 ELSE 0

\* the requests the scan has made for the entry at j
FetchesOf(j) == {n \in 2..Len(sent) : sent[n].path = scan.root[j].path}

\* C17: the scan asks for the root listing once, as its first request; after
\* a scan in which nothing failed every entry has been fetched once for each
\* rule it matches (the Kubernetes rule fetching files only) and has one
\* file in the collection of each such rule, and each flag is set exactly
\* when some entry matches its rule.
C17_AllRulesApplied ==
  scan.pc # "idle" =>
    /\ \A n \in 1..Len(sent) : sent[n].path = "" <=> n = 1
    /\ ScanCompleted =>
         /\ Len(sent) >= 1
         /\ \A j \in 1..Len(scan.root) :
              /\ Cardinality(FetchesOf(j)) =
                   One(j \in ComposeEntries) + One(j \in DockerfileEntries)
                     + One(j \in TerraformEntries)
                     + One(j \in KubernetesFileEntries)
              /\ Cardinality(PlacesOf(scan.analysis.dockerfiles, scan.root[j]))
                   = One(j \in DockerfileEntries)
              /\ Cardinality(PlacesOf(scan.analysis.terraformFiles, scan.root[j]))
                   = One(j \in TerraformEntries)
              /\ Cardinality(PlacesOf(scan.analysis.kubernetesFiles, scan.root[j]))
                   = One(j \in KubernetesFileEntries)
         /\ scan.analysis.hasDockerCompose <=> ComposeEntries # {}
         /\ scan.analysis.hasDockerfile <=> DockerfileEntries # {}
         /\ scan.analysis.hasTerraform <=> TerraformEntries # {}
         /\ scan.analysis.hasKubernetes <=> KubernetesEntries # {}

\* Dockerfile.k8s.tf alone: three flags, three fetches, a file in each of
\* the three collections
C17_Witness ==
  /\ ScanCompleted
  /\ Len(scan.root) = 1
  /\ scan.root[1].name = "Dockerfile.k8s.tf"
  /\ Len(sent) = 4
  /\ scan.analysis.hasDockerfile
  /\ scan.analysis.hasTerraform
  /\ scan.analysis.hasKubernetes
  /\ ~scan.analysis.hasDockerCompose
  /\ Len(scan.analysis.dockerfiles) = 1
  /\ Len(scan.analysis.terraformFiles) = 1
  /\ Len(scan.analysis.kubernetesFiles) = 1

(***************************************************************************)
(* Properties of the repo-picker page (SpecPicker).                        *)
(***************************************************************************)
\* fetchRepos has just been answered with HTTP 401
AnsweredUnauthorized ==
  /\ picker.pc = "fetching"
  /\ picker'.pc = "shown"
  /\ recv' # <<>>
  /\ Last(recv').kind = "http"
  /\ Last(recv').status = 401

\* C6: when the host answers the repository listing of the picker with 401,
\* the stored token is cleared and the redirect to the landing page is
\* scheduled.
C6_UnauthorizedClearsToken ==
  [][AnsweredUnauthorized => (localStorage' = <<>> /\ picker'.timer)]_vars

(***************************************************************************)
(* Properties of the encoding and decoding (SpecCodec).                    *)
(***************************************************************************)
\* s is the base64 text of t: the canonical length, and t when decoded
IsBase64Of(s, t) ==
  /\ Len(s) = 4 * ((Len(t) + 2) \div 3)
  /\ atob(s) = [ok |-> TRUE, value |-> t]

\* C15: a read that succeeds on a payload whose encoding is base64 returns,
\* as content, the text the payload's content is the base64 of (line feeds
\* apart); under any other encoding, or none, the content is returned as it
\* came; the other properties of the payload are returned as they came.
C15_ReadDecodesBase64 ==
  (call.op = "getRepoFile" /\ call.pc = "done" /\ call.result.kind = "ok") =>
    LET raw == recv[1].body
        out == call.result.value
    IN  /\ [out EXCEPT !.content = raw.content] = raw
        /\ IF raw.encoding = <<"base64">>
             THEN /\ out.content # <<>>
                  /\ btoa(out.content[1]) =
                       [ok |-> TRUE, value |-> StripSpace(raw.content[1])]
             ELSE out.content = raw.content

\* the payload of the text "a~ " under base64 is read as that text
C15_Witness ==
  /\ call.op = "getRepoFile"
  /\ call.pc = "done"
  /\ call.result.kind = "ok"
  /\ recv[1].body.encoding = <<"base64">>
  /\ recv[1].body.content = <<"YX4g\n">>
  /\ call.result.value.content = <<"a~ ">>

\* C16: the PUT of updateRepoFile carries the base64 of the text it was
\* given, and the message, the revision marker and the branch it was given.
C16_WriteEncodesBase64 ==
  (call.op = "updateRepoFile" /\ sent # <<>>) =>
    /\ Len(sent) = 1
    /\ sent[1].method = "PUT"
    /\ IsBase64Of(sent[1].body.content, call.args.content)
    /\ sent[1].body.message = call.args.message
    /\ sent[1].body.sha = call.args.sha
    /\ sent[1].body.branch = call.args.branch[1]

\* the text "a~" goes out as "YX4=" with its message, marker and branch
C16_Witness ==
  /\ call.op = "updateRepoFile"
  /\ call.pc = "await"
  /\ call.args.content = "a~"
  /\ sent[1].body =
       [message |-> "fix", content |-> "YX4=", sha |-> <<BlobSha("b")>>,
        branch |-> "dev"]

(***************************************************************************)
(* Properties of the rendered diff (SpecDiff).                             *)
(***************************************************************************)
\* a line that is missing because its text is shorter counts as empty
PaddedLine(lines, i) == IF i <= Len(lines) THEN lines[i] ELSE ""

\* C14: the dialog shows max(old lines, new lines) rows, and row i is
\* flagged changed exactly when the old and the new line at i differ, a
\* missing line counting as an empty one.
C14_DiffRows ==
  DialogMounted(page) =>
    LET oldLines == SplitLines(page.pending[1].oldContent)
        newLines == SplitLines(page.pending[1].newContent)
    IN  /\ Len(diff) >= Len(oldLines)
        /\ Len(diff) >= Len(newLines)
        /\ Len(diff) \in {Len(oldLines), Len(newLines)}
        /\ \A i \in 1..Len(diff) :
             diff[i].changed <=> PaddedLine(oldLines, i) # PaddedLine(newLines, i)

(***************************************************************************)
(* Properties of the commit flow (SpecCommit).                             *)
(***************************************************************************)
\* the branch the call in progress commits to: the new branch when one was
\* asked for, the selected branch otherwise
TargetOfCall ==
  IF page.args.createNew /\ page.args.newBranchName # ""
    THEN page.args.newBranchName
    ELSE page.args.branch

IsReadOf(req, path, branch) ==
  /\ req.method = "GET"
  /\ req.kind = "contents"
  /\ req.path = path
  /\ req.branch = <<branch>>

\* the reads of path on branch the call in progress made before request n
ReadsBefore(n, path, branch) ==
  {m \in 1..(n - 1) : IsReadOf(sent[m], path, branch)}

\* C4: a write of the commit flow goes to the target branch (the new branch
\* when one was asked for, the selected branch otherwise), the flow has read
\* the same path on that branch before it, the most recent such read
\* succeeded, and the write carries the revision marker that read returned.
C4_WriteCarriesMarkerOfLastRead ==
  \A n \in 1..Len(sent) :
    sent[n].kind = "put" =>
      LET put   == sent[n]
          reads == ReadsBefore(n, put.path, put.body.branch)
      IN  /\ put.body.branch = TargetOfCall
          /\ put.path = page.pending[1].path
          /\ reads # {}
          /\ Len(recv) >= MaxOf(reads)
          /\ ResponseOk(recv[MaxOf(reads)])
          /\ put.body.sha = <<recv[MaxOf(reads)].body.sha>>

\* a write is in flight to a branch the flow has just created
C4_Witness ==
  /\ page.pc = "write"
  /\ page.args.createNew
  /\ Last(sent).kind = "put"
  /\ Last(sent).body.branch = "feat"
  /\ Last(sent).body.sha = <<BlobSha("a")>>

\* the write of the commit flow is in flight and the file on its branch is
\* no longer the one whose revision marker it carries
StaleWriteInFlight ==
  /\ page.pc = "write"
  /\ Outstanding = 1
  /\ Last(sent).kind = "put"
  /\ hostHead[Last(sent).body.branch] # 0
  /\ Last(sent).body.sha # <<BlobSha(HeadContent(Last(sent).body.branch))>>

\* C5: when the write of the commit flow is answered while its revision
\* marker is stale, the host keeps its content, the dialog stays open on the
\* pending change and shows the error of updateRepoFile, and the chat gets no
\* success message.
C5_StaleWriteRejected ==
  [][(StaleWriteInFlight /\ page'.pc = "ready") =>
       /\ hostCommits' = hostCommits
       /\ hostHead' = hostHead
       /\ page'.chat = page.chat
       /\ page'.show
       /\ page'.pending = page.pending
       /\ ~page'.dialog.committing
       /\ page'.dialog.error # <<>>
       /\ \/ StartsWith(page'.dialog.error[1], updateRepoFileError(""))
          \/ page'.dialog.error[1] = FetchFailedMessage]_vars

\* the dialog shows the host's conflict while the file on the selected branch
\* is not the one the change was proposed for
C5_Witness ==
  /\ page.pc = "ready"
  /\ DialogMounted(page)
  /\ page.dialog.error = <<updateRepoFileError("Conflict")>>
  /\ page.chat = <<>>
  /\ ~page.dialog.createNewBranch
  /\ hostHead[page.dialog.selectedBranch] # 0
  /\ HeadContent(page.dialog.selectedBranch) # page.pending[1].oldContent

\* a commit call ends in this step
CommitEnds ==
  /\ page'.pc = "ready"
  /\ \/ page.pc \in {"lookup", "newref", "read", "write"}
     \/ page.pc = "ready" /\ DialogMounted(page) /\ page'.dialog.error # <<>>
          /\ page'.dialog.error # <<"Please enter a branch name">>
          /\ page' # page

\* the call that ends has written the file: the host took its write
CommitWritten == page.pc = "write" /\ Len(hostCommits') > Len(hostCommits)

\* the user cancels: the open dialog closes while no commit is running
Cancelled == page.pc = "ready" /\ DialogMounted(page) /\ ~page'.show

\* the pending change and the dialog after each way a commit or a dialog
\* ends
PendingAfterCommit ==
  /\ (CommitEnds /\ CommitWritten) =>
       /\ page'.pending = <<>>
       /\ ~page'.show
       /\ Len(page'.chat) = Len(page.chat) + 1
  /\ (CommitEnds /\ ~CommitWritten) =>
       /\ page'.pending = page.pending
       /\ page'.pending # <<>>
       /\ page'.show
       /\ page'.dialog.error # <<>>
       /\ ~page'.dialog.committing
       /\ page'.chat = page.chat
  /\ Cancelled => page'.pending = <<>>

\* C18: a commit that wrote the file and a cancel leave no pending change
\* and a closed dialog; a commit that failed leaves the pending change, the
\* dialog open on its error and the Commit button enabled.
C18_PendingChangeLifecycle == [][PendingAfterCommit]_vars

\* after a failed read of the file the change is still pending, the dialog
\* shows the error and Confirm can be pressed again
C18_Witness ==
  /\ page.pc = "ready"
  /\ page.dialog.error = <<"Failed to get file">>
  /\ page.pending # <<>>
  /\ page.show
  /\ ~page.dialog.committing
  /\ ENABLED Confirm

\* C19: when the dialog's commit is confirmed while no token is stored, no
\* request goes to the host.
C19_NoTokenNoCommitRequest ==
  [][(localStorage = <<>> /\ page.pc = "ready" /\ DialogMounted(page))
       => sent' = <<>>]_vars

\* C20: a commit replaces the file on its target branch only when the content
\* there is still the pending change's oldContent.
C20_OverwritesOnlyOldContent ==
  [][(CommitWritten /\ page.pending # <<>>)
       => HeadContent(page.target) = page.pending[1].oldContent]_vars

\* the call in progress has created its new branch: it asked for one and is
\* past the answer to its POST of the ref
BranchMadeByCall ==
  /\ page.pc \in {"read", "write"}
  /\ page.args.createNew
  /\ page.args.newBranchName # ""

\* C21: when a commit call fails, the host has taken no write of the file from
\* it and holds no branch the call created.
C21_FailedCommitLeavesNothing ==
  [][(CommitEnds /\ ~CommitWritten)
       => /\ hostCommits' = hostCommits
          /\ BranchMadeByCall => hostHead'[page.target] = 0]_vars

\* C22 (SpecScan): in the analysis analyzeRepository returns, hasDockerCompose
\* is true exactly when dockerComposeFile is set, hasDockerfile exactly when
\* dockerfiles is not empty and hasTerraform exactly when terraformFiles is
\* not empty.
C22_FlagsMatchContent ==
  scan.pc = "done" =>
    /\ scan.analysis.hasDockerCompose <=> scan.analysis.dockerComposeFile # <<>>
    /\ scan.analysis.hasDockerfile <=> scan.analysis.dockerfiles # <<>>
    /\ scan.analysis.hasTerraform <=> scan.analysis.terraformFiles # <<>>

====
